---- MODULE Spec2Model ----
(***************************************************************************)
(* Tool dispatch of src/src/multi_tool.cpp: the permissive first parse     *)
(* that finds the tool name, the strict second parse against the general   *)
(* options merged with the tool's own, the derivation of the               *)
(* RuntimeConfig, and the sequence of calls main makes.                    *)
(*                                                                         *)
(* The command line is a sequence of tokens.  A token is a record          *)
(*   [k |-> "word", name |-> w, eq |-> FALSE, adj |-> ""]      w           *)
(*   [k |-> "long", name |-> n, eq |-> FALSE, adj |-> ""]      --n         *)
(*   [k |-> "long", name |-> n, eq |-> TRUE,  adj |-> v]       --n=v       *)
(*   [k |-> "term", name |-> "--", eq |-> FALSE, adj |-> ""]   --          *)
(* boost::program_options is modelled by what command_line_parser::run     *)
(* and store do with the default (unix) style.                             *)
(***************************************************************************)
EXTENDS Naturals, Sequences, FiniteSets, TLC

\* Longest argument vector (argv[1:]) built from all the tokens.
MaxArgs == 3

\* Most options that follow a registered tool name in the longer vectors.
MaxOpts == 3

\* Largest status the execution backend returns.
MaxStatus == 1

Word(w) == [k |-> "word", name |-> w, eq |-> FALSE, adj |-> ""]
Long(n) == [k |-> "long", name |-> n, eq |-> FALSE, adj |-> ""]
LongEq(n, v) == [k |-> "long", name |-> n, eq |-> TRUE, adj |-> v]
Term == [k |-> "term", name |-> "--", eq |-> FALSE, adj |-> ""]

\* The characters of a token as they stand in argv.
Text(tok) ==
  IF tok.k = "long"
  THEN IF tok.eq THEN "--" \o tok.name \o "=" \o tok.adj ELSE "--" \o tok.name
  ELSE tok.name

\* The tokens command lines are built from.
Tokens ==
  { Word("fft"), Word("t"), Word("foo"),
    Long("help"), Long("model"), Long("compile-only"), Long("defer-attach"),
    LongEq("ipus", "2"), LongEq("ipus", "x"),
    LongEq("save-exe", "a"), LongEq("load-exe", "b"), Long("save-exe"),
    LongEq("tool-name", "fft"), Long("list-tools"),
    LongEq("width", "2"), Long("bogus"), LongEq("bogus", ""),
    LongEq("save", "a"), Term }

\* The tokens that follow a registered tool name in the longer command lines.
OptionTokens ==
  { Long("help"), Long("model"), Long("compile-only"), Long("defer-attach"),
    LongEq("ipus", "2"), LongEq("ipus", "x"),
    LongEq("save-exe", "a"), LongEq("load-exe", "b"),
    LongEq("width", "2"), Long("bogus") }

RECURSIVE SeqsUpTo(_, _)
SeqsUpTo(S, n) ==
  IF n = 0 THEN { <<>> }
  ELSE LET shorter == SeqsUpTo(S, n - 1)
       IN shorter \cup { Append(s, x) : s \in { q \in shorter : Len(q) = n - 1 }, x \in S }

(***************************************************************************)
(* Option descriptions.  sem is the value semantic: "untyped" (no value,   *)
(* as "help"), "bool_switch", "string", "size_t", "strings" (a composing   *)
(* vector of strings).  dflt is <<>> or <<default value>>.                 *)
(***************************************************************************)
Opt(n, s, d) == [name |-> n, sem |-> s, dflt |-> d]

\* The options of the first parse.
SelectionDesc ==
  { Opt("list-tools", "string", <<>>),
    Opt("tool-name", "string", <<>>),
    Opt("misc-positional", "strings", <<>>) }

\* The general options of the second parse.
GeneralDesc ==
  { Opt("help", "untyped", <<>>),
    Opt("model", "bool_switch", <<FALSE>>),
    Opt("ipus", "size_t", <<1>>),
    Opt("save-exe", "string", <<"">>),
    Opt("load-exe", "string", <<"">>),
    Opt("compile-only", "bool_switch", <<FALSE>>),
    Opt("defer-attach", "bool_switch", <<FALSE>>) }

\* The registry: tool name -> the options the tool built by its factory declares.
globalTools ==
  ("fft" :> {}) @@ ("t" :> { Opt("width", "size_t", <<>>) })

\* The list of registered names printed with the diagnostics.
enumerateToolNames(tools) == DOMAIN tools

\* Option names that are proper prefixes of other option names in this alphabet.
ProperPrefixes == { <<"save", "save-exe">> }

\* std::string::find(option) == 0 on a long name.
IsPrefix(a, b) == a = b \/ <<a, b>> \in ProperPrefixes

\* lexical_cast<std::size_t> of the strings of this alphabet.
Numerals == ("1" :> 1) @@ ("2" :> 2)

\* Number of tokens a value semantic takes (min_tokens = max_tokens here).
SemTokens(sem) == IF sem \in {"untyped", "bool_switch"} THEN 0 ELSE 1

(***************************************************************************)
(* command_line_parser::run.  An option of the result is a record          *)
(*   [key, value, pos, unregistered]: key is "" for a positional token     *)
(* that was given no name, value the sequence of its value strings.        *)
(***************************************************************************)
ParsedOption(key, value, pos, unreg) ==
  [key |-> key, value |-> value, pos |-> pos, unregistered |-> unreg]

Failure(kind) == [err |-> kind, opts |-> <<>>]

\* options_description::find_nothrow: a full match wins, a single
\* approximate match is taken, several are ambiguous.
find_nothrow(name, desc, approx) ==
  LET full == { d \in desc : d.name = name }
      near == { d \in desc : d.name # name /\ approx /\ IsPrefix(name, d.name) }
  IN IF full # {} THEN [err |-> "none", found |-> full]
     ELSE IF Cardinality(near) > 1 THEN [err |-> "ambiguous_option", found |-> {}]
     ELSE [err |-> "none", found |-> near]

\* A token a style parser recognises as an option.
LooksLikeOption(tok) == tok.k = "long"

\* cmdline::finish_option for the option named by the long token tok, with
\* the tokens rest after it: the option, and the tokens it left.
finish_option(tok, rest, desc, allowUnregistered) ==
  LET value == IF tok.eq THEN <<tok.adj>> ELSE <<>>
      f == find_nothrow(tok.name, desc, TRUE)
      fail(kind) == [err |-> kind, opt |-> ParsedOption("", <<>>, FALSE, FALSE), rest |-> rest]
  IN IF f.err # "none" THEN fail(f.err)
     ELSE IF f.found = {}
     THEN IF allowUnregistered
          THEN [err |-> "none", opt |-> ParsedOption(tok.name, value, FALSE, TRUE), rest |-> rest]
          ELSE fail("unknown_option")
     ELSE LET d == CHOOSE x \in f.found : TRUE
              n == SemTokens(d.sem)
          IN IF Len(value) + Len(rest) < n THEN fail("missing_parameter")
             ELSE IF value # <<>> /\ n = 0 THEN fail("extra_parameter")
             ELSE IF Len(value) >= n
             THEN [err |-> "none", opt |-> ParsedOption(d.name, value, FALSE, FALSE), rest |-> rest]
             ELSE LET next == Head(rest)
                  IN IF next.k = "long" /\ next.eq /\ next.adj = ""
                     THEN fail("empty_adjacent_parameter")
                     ELSE IF LooksLikeOption(next)
                             /\ find_nothrow(Text(next), desc, TRUE) # [err |-> "none", found |-> {}]
                     THEN fail("missing_parameter")
                     ELSE [err |-> "none",
                           opt |-> ParsedOption(d.name, <<Text(next)>>, FALSE, FALSE),
                           rest |-> Tail(rest)]

\* The style parsers applied from left to right.
RECURSIVE cmdline_run(_, _, _, _)
cmdline_run(args, desc, allowUnregistered, acc) ==
  IF args = <<>> THEN [err |-> "none", opts |-> acc]
  ELSE LET tok == Head(args)
           rest == Tail(args)
       IN CASE tok.k = "word" ->
                 cmdline_run(rest, desc, allowUnregistered,
                             Append(acc, ParsedOption("", <<tok.name>>, TRUE, FALSE)))
            [] tok.k = "term" ->
                 [err |-> "none",
                  opts |-> acc \o [i \in 1..Len(rest) |->
                                     ParsedOption("", <<Text(rest[i])>>, TRUE, FALSE)]]
            [] tok.k = "long" ->
                 IF tok.eq /\ tok.adj = "" THEN Failure("empty_adjacent_parameter")
                 ELSE LET fin == finish_option(tok, rest, desc, allowUnregistered)
                      IN IF fin.err # "none" THEN Failure(fin.err)
                         ELSE cmdline_run(fin.rest, desc, allowUnregistered,
                                          Append(acc, fin.opt))

\* positional_options_description of the first parse: p.add("tool-name", 1),
\* p.add("misc-positional", -1).
name_for_position(position) ==
  IF position = 0 THEN "tool-name" ELSE "misc-positional"

\* The positional tokens take the names of their positions.
AssignPositions(opts) ==
  [i \in 1..Len(opts) |->
     IF opts[i].pos
     THEN [opts[i] EXCEPT !.key =
             name_for_position(Cardinality({ j \in 1..(i - 1) : opts[j].pos }))]
     ELSE opts[i]]

\* command_line_parser(argc, argv).options(desc)[.positional(p)][.allow_unregistered()].run()
command_line_parser(args, desc, positional, allowUnregistered) ==
  LET r == cmdline_run(args, desc, allowUnregistered, <<>>)
  IN IF r.err # "none" \/ ~positional THEN r
     ELSE [err |-> "none", opts |-> AssignPositions(r.opts)]

(***************************************************************************)
(* po::store: the variables_map as a function from option names to values. *)
(***************************************************************************)
EmptyMap == [n \in {} |-> ""]

\* value_semantic::parse of one occurrence into the map m.
StoreOne(m, d, value) ==
  CASE d.sem = "strings" ->
         [err |-> "none",
          map |-> (d.name :> ((IF d.name \in DOMAIN m THEN m[d.name] ELSE <<>>) \o value)) @@ m]
    [] d.name \in DOMAIN m /\ d.sem # "strings" ->
         [err |-> "multiple_occurrences", map |-> m]
    [] d.name \notin DOMAIN m /\ d.sem = "string" ->
         [err |-> "none", map |-> (d.name :> value[1]) @@ m]
    [] d.name \notin DOMAIN m /\ d.sem = "size_t" ->
         IF value[1] \in DOMAIN Numerals
         THEN [err |-> "none", map |-> (d.name :> Numerals[value[1]]) @@ m]
         ELSE [err |-> "invalid_option_value", map |-> m]
    [] d.name \notin DOMAIN m /\ d.sem = "bool_switch" ->
         [err |-> "none", map |-> (d.name :> TRUE) @@ m]
    [] d.name \notin DOMAIN m /\ d.sem = "untyped" ->
         [err |-> "none", map |-> (d.name :> "") @@ m]

RECURSIVE StoreOptions(_, _, _)
StoreOptions(opts, desc, m) ==
  IF opts = <<>> THEN [err |-> "none", map |-> m]
  ELSE LET o == Head(opts)
       IN IF o.key = "" \/ o.unregistered THEN StoreOptions(Tail(opts), desc, m)
          ELSE LET d == CHOOSE x \in desc : x.name = o.key
                   r == StoreOne(m, d, o.value)
               IN IF r.err # "none" THEN r ELSE StoreOptions(Tail(opts), desc, r.map)

\* The defaults of the options the command line did not set.
ApplyDefaults(m, desc) ==
  LET missing == { d \in desc : d.name \notin DOMAIN m /\ d.dflt # <<>> }
  IN [n \in { d.name : d \in missing } |->
        (CHOOSE d \in missing : d.name = n).dflt[1]] @@ m

store(parsed, desc) ==
  LET r == StoreOptions(parsed.opts, desc, EmptyMap)
  IN IF r.err # "none" THEN r ELSE [err |-> "none", map |-> ApplyDefaults(r.map, desc)]

(***************************************************************************)
(* The state of one process run.                                           *)
(***************************************************************************)
VARIABLES
  argv,       \* argv[1:]
  pc,         \* the statement of main that runs next, or "exited"
  toolName,   \* main's toolName
  factoryFunc,\* main's factoryFunc: <<>> or <<the registered name it builds>>
  tools,      \* the ToolInterface instances created so far
  desc,       \* main's desc: <<>> or <<the options the tool declared>>
  args,       \* parseOptions' variables_map, once stored
  allOpts,    \* main's allOpts: <<>> or <<the map parseOptions returned>>
  cfg,        \* <<>> or <<the RuntimeConfig getRuntimeConfig returned>>
  thrown,     \* <<>> or <<the exception that left main>>
  exit,       \* how the process ended
  out,        \* what was written to std::cout and std::cerr
  steps,      \* the calls main has made, in order
  backend     \* the statuses GraphManager::run returned

vars == <<argv, pc, toolName, factoryFunc, tools, desc, args, allOpts, cfg, thrown,
          exit, out, steps, backend>>

Running == [kind |-> "running", code |-> 0]
\* An exception nothing catches: std::terminate.
Aborted == [kind |-> "abort", code |-> 0]
Exited(code) == [kind |-> "exit", code |-> code]

Exception(type, what, where) == [type |-> type, what |-> what, where |-> where]

\* The command lines explored: every vector of at most MaxArgs tokens, and
\* every registered tool name followed by at most MaxOpts option tokens.
CommandLines ==
  SeqsUpTo(Tokens, MaxArgs)
    \cup { <<Word(n)>> \o s : n \in DOMAIN globalTools, s \in SeqsUpTo(OptionTokens, MaxOpts) }

Init ==
  /\ argv \in CommandLines
  /\ pc = "parseToolName"
  /\ toolName = ""
  /\ factoryFunc = <<>>
  /\ tools = <<>>
  /\ desc = <<>>
  /\ args = <<>>
  /\ allOpts = <<>>
  /\ cfg = <<>>
  /\ thrown = <<>>
  /\ exit = Running
  /\ out = <<>>
  /\ steps = <<>>
  /\ backend = <<>>

\* An exception leaves main.
Throw(e) ==
  /\ thrown' = <<e>>
  /\ exit' = Aborted
  /\ pc' = "exited"

Line(stream, what) == [stream |-> stream, what |-> what]

ToolList == Line("cerr", <<"Please choose a tool to run from the following:",
                           enumerateToolNames(globalTools)>>)

----
\* The variables_map of the first parse, or the error of the parser.
ToolNameArgs(argvec) ==
  LET parsed == command_line_parser(argvec, SelectionDesc, TRUE, TRUE)
  IN IF parsed.err # "none" THEN [err |-> parsed.err, map |-> EmptyMap]
     ELSE store(parsed, SelectionDesc)

\* std::tie(toolName, factoryFunc) = parseToolName(argc, argv)
ParseToolName ==
  /\ pc = "parseToolName"
  /\ steps' = Append(steps, "parseToolName")
  /\ LET r == ToolNameArgs(argv)
     IN IF r.err # "none"
        THEN /\ Throw(Exception("po::error", r.err, "parseToolName"))
             /\ UNCHANGED <<toolName, factoryFunc, out>>
        ELSE IF "tool-name" \notin DOMAIN r.map
        THEN /\ out' = out \o <<Line("cout", <<"Usage: tool-name [--help]", {}>>), ToolList>>
             /\ Throw(Exception("std::runtime_error", "No tool specified.", "parseToolName"))
             /\ UNCHANGED <<toolName, factoryFunc>>
        ELSE IF r.map["tool-name"] \notin DOMAIN globalTools
        THEN /\ out' = out \o <<Line("cerr", <<"Unrecognised tool:", {r.map["tool-name"]}>>),
                                ToolList>>
             /\ Throw(Exception("std::runtime_error", "Unrecognised tool name.", "parseToolName"))
             /\ UNCHANGED <<toolName, factoryFunc>>
        ELSE /\ toolName' = r.map["tool-name"]
             /\ factoryFunc' = <<r.map["tool-name"]>>
             /\ pc' = "factoryFunc"
             /\ UNCHANGED <<thrown, exit, out>>
  /\ UNCHANGED <<argv, tools, desc, args, allOpts, cfg, backend>>

\* A tool as its factory leaves it.
NewTool(name) == [name |-> name, runtimeConfig |-> <<>>, initOpts |-> <<>>]

\* std::unique_ptr<ToolInterface> tool = factoryFunc()
FactoryFunc ==
  /\ pc = "factoryFunc"
  /\ steps' = Append(steps, "factoryFunc")
  /\ tools' = Append(tools, NewTool(factoryFunc[1]))
  /\ pc' = "addToolOptions"
  /\ UNCHANGED <<argv, toolName, factoryFunc, desc, args, allOpts, cfg, thrown, exit, out, backend>>

\* tool->addToolOptions(desc)
AddToolOptions ==
  /\ pc = "addToolOptions"
  /\ steps' = Append(steps, "addToolOptions")
  /\ desc' = <<globalTools[tools[Len(tools)].name]>>
  /\ pc' = "parseOptions"
  /\ UNCHANGED <<argv, toolName, factoryFunc, tools, args, allOpts, cfg, thrown, exit, out, backend>>

\* all.add(desc).add(toolOptions)
AllOptions(toolOptions) == GeneralDesc \cup toolOptions

\* The second parse with allow_unregistered(), as the first has it.
StrictArgsLenient(argvec, toolOptions) ==
  LET parsed == command_line_parser(argvec, AllOptions(toolOptions), FALSE, TRUE)
  IN IF parsed.err # "none" THEN [err |-> parsed.err, map |-> EmptyMap]
     ELSE store(parsed, AllOptions(toolOptions))

\* The variables_map of the second parse, or the error of the parser.
StrictArgs(argvec, toolOptions) ==
  LET parsed == command_line_parser(argvec, AllOptions(toolOptions), FALSE, FALSE)
  IN IF parsed.err # "none" THEN [err |-> parsed.err, map |-> EmptyMap]
     ELSE store(parsed, AllOptions(toolOptions))

\* The help option never looked at.
HelpRequestedNever(m) == FALSE

\* if (args.count("help"))
HelpRequested(m) == "help" \in DOMAIN m

\* The status of std::exit on the help path.
HelpStatus == 0

\* The check of save-exe against load-exe left out.
BothExeNever(m) == FALSE

\* if (saveExe && loadExe)
BothExe(m) == m["save-exe"] # "" /\ m["load-exe"] # ""

\* auto allOpts = parseOptions(argc, argv, desc)
ParseOptions ==
  /\ pc = "parseOptions"
  /\ steps' = Append(steps, "parseOptions")
  /\ LET r == StrictArgs(argv, desc[1])
     IN IF r.err # "none"
        THEN /\ Throw(Exception("po::error", r.err, "parseOptions"))
             /\ UNCHANGED <<args, allOpts, out>>
        ELSE /\ args' = <<r.map>>
             /\ IF HelpRequested(r.map)
                THEN /\ out' = Append(out, Line("cout", <<"All Options",
                                         { d.name : d \in AllOptions(desc[1]) }>>))
                     /\ exit' = Exited(HelpStatus)
                     /\ pc' = "exited"
                     /\ UNCHANGED <<allOpts, thrown>>
                ELSE IF BothExe(r.map)
                THEN /\ Throw(Exception("std::logic_error",
                                        "You can not set both save-exe and load-exe.",
                                        "parseOptions"))
                     /\ UNCHANGED <<allOpts, out>>
                ELSE /\ allOpts' = <<r.map>>
                     /\ pc' = "getRuntimeConfig"
                     /\ UNCHANGED <<thrown, exit, out>>
  /\ UNCHANGED <<argv, toolName, factoryFunc, tools, desc, cfg, backend>>

\* exeName without the fall back to load-exe.
ExeNameSaveOnly(m) == m["save-exe"]

\* exeName of getRuntimeConfig.
ExeName(m) == IF m["save-exe"] = "" THEN m["load-exe"] ELSE m["save-exe"]

\* The flag alone, compile-only not looked at.
DeferAttachFlagOnly(m) == m["defer-attach"]

\* compile-only || defer-attach
DeferAttach(m) == m["compile-only"] \/ m["defer-attach"]

\* ipu_utils::RuntimeConfig{...} of getRuntimeConfig.
getRuntimeConfig(m) ==
  [deviceCount |-> m["ipus"],
   imagePath |-> ExeName(m),
   useSimulator |-> m["model"],
   persist |-> m["save-exe"] # "",
   restore |-> m["load-exe"] # "",
   compileOnly |-> m["compile-only"],
   deferAttach |-> DeferAttach(m)]

\* The argument of setRuntimeConfig is evaluated.
GetRuntimeConfig ==
  /\ pc = "getRuntimeConfig"
  /\ steps' = Append(steps, "getRuntimeConfig")
  /\ cfg' = <<getRuntimeConfig(allOpts[1])>>
  /\ pc' = "setRuntimeConfig"
  /\ UNCHANGED <<argv, toolName, factoryFunc, tools, desc, args, allOpts, thrown, exit, out, backend>>

\* setRuntimeConfig followed by the run, init left out.
SetRuntimeConfigThenRun ==
  /\ pc = "setRuntimeConfig"
  /\ steps' = Append(steps, "setRuntimeConfig")
  /\ tools' = [tools EXCEPT ![Len(tools)].runtimeConfig = cfg]
  /\ pc' = "run"
  /\ UNCHANGED <<argv, toolName, factoryFunc, desc, args, allOpts, cfg, thrown, exit, out, backend>>

\* tool->setRuntimeConfig(...)
SetRuntimeConfig ==
  /\ pc = "setRuntimeConfig"
  /\ steps' = Append(steps, "setRuntimeConfig")
  /\ tools' = [tools EXCEPT ![Len(tools)].runtimeConfig = cfg]
  /\ pc' = "init"
  /\ UNCHANGED <<argv, toolName, factoryFunc, desc, args, allOpts, cfg, thrown, exit, out, backend>>

\* tool->init(allOpts): the tool takes the options, or throws.
ToolInit ==
  /\ pc = "init"
  /\ steps' = Append(steps, "init")
  /\ \E accepted \in BOOLEAN :
       IF accepted
       THEN /\ tools' = [tools EXCEPT ![Len(tools)].initOpts = allOpts]
            /\ pc' = "run"
            /\ UNCHANGED <<thrown, exit>>
       ELSE /\ Throw(Exception("tool", "init", "main"))
            /\ UNCHANGED tools
  /\ UNCHANGED <<argv, toolName, factoryFunc, desc, args, allOpts, cfg, out, backend>>

\* main returning success whatever GraphManager::run returned.
MainReturnZero(status) == 0

\* What main returns for the status of GraphManager::run.
MainReturn(status) == status

\* return ipu_utils::GraphManager().run(tool->getGraphBuilder())
Run ==
  /\ pc = "run"
  /\ steps' = Append(steps, "run")
  /\ \E status \in 0..MaxStatus :
       /\ backend' = Append(backend, [tool |-> tools[Len(tools)], status |-> status])
       /\ exit' = Exited(MainReturn(status))
  /\ pc' = "exited"
  /\ UNCHANGED <<argv, toolName, factoryFunc, tools, desc, args, allOpts, cfg, thrown, out>>

Next ==
  \/ ParseToolName
  \/ FactoryFunc
  \/ AddToolOptions
  \/ ParseOptions
  \/ GetRuntimeConfig
  \/ SetRuntimeConfig
  \/ ToolInit
  \/ Run

Spec == Init /\ [][Next]_vars

(***************************************************************************)
(* Vocabulary of the properties.                                           *)
(***************************************************************************)
Done == pc = "exited"

ThrownIs(type, where) ==
  thrown # <<>> /\ thrown[1].type = type /\ thrown[1].where = where

UsageError == thrown # <<>> /\ thrown[1].what = "No tool specified."
UnknownToolError == thrown # <<>> /\ thrown[1].what = "Unrecognised tool name."
InvalidOptionError == ThrownIs("po::error", "parseOptions")
MutuallyExclusiveModesError == ThrownIs("std::logic_error", "parseOptions")

HelpDisplayed == \E i \in 1..Len(out) : out[i].what[1] = "All Options"
UsagePrinted == \E i \in 1..Len(out) : out[i].what[1] = "Usage: tool-name [--help]"
ToolListPrinted ==
  \E i \in 1..Len(out) :
    out[i].what = <<"Please choose a tool to run from the following:", DOMAIN globalTools>>

NonZeroStatus == exit.kind = "abort" \/ (exit.kind = "exit" /\ exit.code # 0)

\* No tool has been given a RuntimeConfig or its options, and nothing has run.
NothingConfigured ==
  /\ \A i \in 1..Len(tools) : tools[i].runtimeConfig = <<>> /\ tools[i].initOpts = <<>>
  /\ backend = <<>>

\* The second parse stored its variables_map.
Stored == args # <<>>

\* An option token with an adjacent non-empty value or none: nothing that
\* takes the next token, no terminator.
Plain(tok) == tok.k = "long" /\ (tok.eq => tok.adj # "")

\* tok sets an option of schema the way the option's type asks.
WellFormedFor(tok, schema) ==
  /\ tok.k = "long"
  /\ \E d \in schema :
       /\ d.name = tok.name
       /\ tok.eq = (SemTokens(d.sem) = 1)
       /\ tok.eq => tok.adj # ""
       /\ d.sem = "size_t" => tok.adj \in DOMAIN Numerals

NoRepeats(s) == \A i, j \in 1..Len(s) : s[i].name = s[j].name => i = j

(***************************************************************************)
(* C1                                                                      *)
(***************************************************************************)
\* The second parse stored non-empty values for both save-exe and load-exe.
SaveAndLoadGiven ==
  Stored /\ args[1]["save-exe"] # "" /\ args[1]["load-exe"] # ""

\* C1 as stated: every command line whose save-exe and load-exe values are
\* both non-empty, whatever its other options, ends in
\* MutuallyExclusiveModesError before the tool is configured.
C1_AsStated ==
  (Done /\ SaveAndLoadGiven) => (MutuallyExclusiveModesError /\ NothingConfigured)

\* C1 amended: when the second parse stored non-empty save-exe and load-exe
\* and help was not among the options, the run ends in
\* MutuallyExclusiveModesError with no tool configured (with help it ends on
\* the help path); and no RuntimeConfig, as returned or as held by a tool,
\* ever has persist and restore both true.
C1_MutuallyExclusive ==
  /\ (SaveAndLoadGiven /\ "help" \notin DOMAIN args[1])
       => (Done /\ MutuallyExclusiveModesError /\ NonZeroStatus
           /\ cfg = <<>> /\ NothingConfigured)
  /\ \A i \in 1..Len(cfg) : ~(cfg[i].persist /\ cfg[i].restore)
  /\ \A i \in 1..Len(tools) : \A j \in 1..Len(tools[i].runtimeConfig) :
       ~(tools[i].runtimeConfig[j].persist /\ tools[i].runtimeConfig[j].restore)

\* Both given with other options around them, and the run refused.
C1_Witness ==
  /\ SaveAndLoadGiven
  /\ MutuallyExclusiveModesError
  /\ args[1]["compile-only"]
  /\ Len(tools) = 1

(***************************************************************************)
(* C2                                                                      *)
(***************************************************************************)
\* C2: the RuntimeConfig returned for a parsed option set, and the one the
\* tool holds, has deferAttach = (compile-only or defer-attach); with
\* compileOnly true, deferAttach is true.
C2_DeferAttach ==
  /\ \A i \in 1..Len(cfg) :
       /\ cfg[i].deferAttach = (allOpts[1]["compile-only"] \/ allOpts[1]["defer-attach"])
       /\ cfg[i].compileOnly => cfg[i].deferAttach
  /\ \A i \in 1..Len(tools) : \A j \in 1..Len(tools[i].runtimeConfig) :
       LET c == tools[i].runtimeConfig[j]
       IN /\ c.deferAttach = (allOpts[1]["compile-only"] \/ allOpts[1]["defer-attach"])
          /\ c.compileOnly => c.deferAttach

\* compile-only given, defer-attach not, and the tool holds a deferred config.
C2_Witness ==
  /\ Len(tools) = 1
  /\ tools[1].runtimeConfig # <<>>
  /\ allOpts[1]["compile-only"]
  /\ ~allOpts[1]["defer-attach"]
  /\ tools[1].runtimeConfig[1].deferAttach

(***************************************************************************)
(* C3                                                                      *)
(***************************************************************************)
\* The RuntimeConfig the claim describes for the option values m.
ExpectedConfig(m) ==
  [deviceCount |-> m["ipus"],
   imagePath |-> IF m["save-exe"] # "" THEN m["save-exe"] ELSE m["load-exe"],
   useSimulator |-> m["model"],
   persist |-> m["save-exe"] # "",
   restore |-> m["load-exe"] # "",
   compileOnly |-> m["compile-only"],
   deferAttach |-> m["compile-only"] \/ m["defer-attach"]]

\* C3: the resolved RuntimeConfig has imagePath = save-exe when that is
\* non-empty and load-exe otherwise, persist and restore true exactly when
\* save-exe and load-exe are non-empty, deviceCount = ipus, useSimulator =
\* model, compileOnly = compile-only; "fft --ipus=2 --save-exe=out" yields
\* deviceCount 2, the image path given, persist, no restore, nothing deferred.
C3_Resolve ==
  /\ \A i \in 1..Len(cfg) : cfg[i] = ExpectedConfig(allOpts[1])
  /\ (argv = <<Word("fft"), LongEq("ipus", "2"), LongEq("save-exe", "a")>> /\ cfg # <<>>)
       => cfg[1] = [deviceCount |-> 2, imagePath |-> "a", useSimulator |-> FALSE,
                    persist |-> TRUE, restore |-> FALSE, compileOnly |-> FALSE,
                    deferAttach |-> FALSE]
  /\ (argv = <<Word("fft"), LongEq("load-exe", "b")>> /\ cfg # <<>>)
       => (cfg[1].imagePath = "b" /\ cfg[1].restore /\ ~cfg[1].persist)
  /\ (argv = <<Word("fft")>> /\ cfg # <<>>)
       => (cfg[1].imagePath = "" /\ ~cfg[1].restore /\ ~cfg[1].persist
           /\ cfg[1].deviceCount = 1)

\* A config resolved from load-exe alone, on the simulator, handed to the backend.
C3_Witness ==
  /\ backend # <<>>
  /\ cfg # <<>>
  /\ cfg[1].imagePath = "b"
  /\ cfg[1].restore
  /\ cfg[1].useSimulator
  /\ allOpts[1]["save-exe"] = ""

(***************************************************************************)
(* C4                                                                      *)
(***************************************************************************)
\* No token of the command line can be a tool name: every token is a
\* well-formed option token, none of them the tool-name option.
NoToolNameToken ==
  \A i \in 1..Len(argv) : Plain(argv[i]) /\ argv[i].name # "tool-name"

\* C4: a command line with no tool-name token, whatever its flags (a bare
\* list-tools among them), ends in UsageError with the usage string and the
\* list of registered tools printed, and a non-zero status.
C4_UsageError ==
  (Done /\ NoToolNameToken)
    => (UsageError /\ UsagePrinted /\ ToolListPrinted /\ NonZeroStatus)

(***************************************************************************)
(* C5                                                                      *)
(***************************************************************************)
\* The command line names the unregistered tool foo and then has only
\* well-formed option tokens, none of them the tool-name option.
NamesUnregisteredTool ==
  /\ Len(argv) >= 1
  /\ argv[1] = Word("foo")
  /\ \A i \in 2..Len(argv) : Plain(argv[i]) /\ argv[i].name # "tool-name"

\* C5: a command line whose tool name is not registered ends in
\* UnknownToolError naming that tool, whatever options it also has, with no
\* tool instantiated and the second parse never reached.
C5_UnknownTool ==
  (Done /\ NamesUnregisteredTool)
    => (/\ UnknownToolError
        /\ \E i \in 1..Len(out) : out[i].what = <<"Unrecognised tool:", {"foo"}>>
        /\ tools = <<>>
        /\ steps = <<"parseToolName">>)

(***************************************************************************)
(* C6                                                                      *)
(***************************************************************************)
\* The second parse has run.
StrictParseDone ==
  \E i \in 1..Len(steps) : steps[i] = "parseOptions"

\* The names a token may spell for the options of schema: the declared
\* names and their abbreviations.
Spells(name, schema) == \E d \in schema : IsPrefix(name, d.name)

\* Token i is an option token that no earlier token can take as its value
\* or turn into a positional token.
StandsAsOption(i) ==
  /\ argv[i].k = "long"
  /\ \A j \in 1..(i - 1) : argv[j].k = "word" \/ (argv[j].k = "long" /\ argv[j].eq)

\* Token i is a word after the first word (the tool name) that no earlier
\* token can take as its value.
StrayWord(i) ==
  /\ argv[i].k = "word"
  /\ \E j \in 1..(i - 1) : argv[j].k = "word"
  /\ \A j \in 1..(i - 1) : argv[j].k = "word" \/ (argv[j].k = "long" /\ argv[j].eq)

\* C6 as stated: once the tool is known, a command line (help apart) with
\* an undeclared option or a stray extra token is rejected with
\* InvalidOptionError.
C6_AsStated ==
  (Done /\ StrictParseDone
     /\ (\A i \in 1..Len(argv) : argv[i] # Long("help"))
     /\ \E i \in 1..Len(argv) :
          \/ StandsAsOption(i) /\ ~Spells(argv[i].name, AllOptions(desc[1]))
          \/ StrayWord(i))
    => InvalidOptionError

\* C6 amended: the second parse rejects with InvalidOptionError every
\* command line with an option token, standing as an option, whose name is
\* neither declared by the merged schema nor an abbreviation of a declared
\* name; positional tokens are not checked against the schema: a command
\* line of words alone is accepted, the words after the tool name ignored.
C6_StrictParse ==
  /\ (StrictParseDone
        /\ \E i \in 1..Len(argv) :
             StandsAsOption(i) /\ ~Spells(argv[i].name, AllOptions(desc[1])))
       => (Done /\ InvalidOptionError /\ NonZeroStatus /\ ~Stored /\ NothingConfigured)
  /\ (StrictParseDone /\ \A i \in 1..Len(argv) : argv[i].k = "word")
       => (~InvalidOptionError /\ Stored /\ allOpts = <<ApplyDefaults(EmptyMap, AllOptions(desc[1]))>>)

\* The tool t declares width; fft does not, and its run with --width is refused.
C6_Witness ==
  /\ InvalidOptionError
  /\ toolName = "fft"
  /\ \E i \in 1..Len(argv) : argv[i] = LongEq("width", "2")
  /\ \A i \in 1..Len(argv) : argv[i] \in {Word("fft"), LongEq("width", "2"), Long("model")}

(***************************************************************************)
(* C7                                                                      *)
(***************************************************************************)
\* The command line is a registered tool name followed by well-formed
\* option tokens only, help among them.
ToolThenOptionsWithHelp ==
  /\ Len(argv) >= 2
  /\ argv[1].k = "word"
  /\ argv[1].name \in DOMAIN globalTools
  /\ \A i \in 2..Len(argv) : Plain(argv[i])
  /\ \E i \in 2..Len(argv) : argv[i] = Long("help")

\* C7 as stated: a command line that names a registered tool and has the
\* help option (no option given twice) prints the help and ends with status 0, whatever else it
\* has, with the tool never configured and the backend never run.
C7_AsStated ==
  (Done /\ StrictParseDone /\ ToolThenOptionsWithHelp /\ NoRepeats(argv))
    => (HelpDisplayed /\ exit = Exited(0) /\ NothingConfigured)

\* C7 amended: when the second parse and store of the whole command line
\* succeed with help among the options, the help text of the merged schema
\* is printed and the process ends with status 0, before the check of
\* save-exe against load-exe, the tool never configured and the backend
\* never run; so it is for every registered tool followed by distinct
\* declared well-formed options with help among them, save-exe and load-exe
\* together included.
C7_Help ==
  /\ (Stored /\ "help" \in DOMAIN args[1])
       => (/\ Done
           /\ HelpDisplayed
           /\ out = <<[stream |-> "cout",
                       what |-> <<"All Options", {d.name : d \in AllOptions(desc[1])}>>]>>
           /\ exit = Exited(0)
           /\ thrown = <<>>
           /\ cfg = <<>>
           /\ NothingConfigured)
  /\ (StrictParseDone /\ ToolThenOptionsWithHelp /\ NoRepeats(argv)
        /\ \A i \in 2..Len(argv) : WellFormedFor(argv[i], AllOptions(desc[1])))
       => (HelpDisplayed /\ exit = Exited(0))

\* Help shown although save-exe and load-exe are both given.
C7_Witness ==
  /\ HelpDisplayed
  /\ exit = Exited(0)
  /\ SaveAndLoadGiven

(***************************************************************************)
(* C8                                                                      *)
(***************************************************************************)
\* C8: the exit status is 0 only when help was displayed or the backend
\* returned 0; a run that ends in UsageError, UnknownToolError,
\* InvalidOptionError or MutuallyExclusiveModesError ends with a non-zero
\* status; a run that reached the backend ends with the status the backend
\* returned.
C8_ExitStatus ==
  /\ exit = Exited(0)
       => (HelpDisplayed \/ (backend # <<>> /\ backend[Len(backend)].status = 0))
  /\ (UsageError \/ UnknownToolError \/ InvalidOptionError \/ MutuallyExclusiveModesError)
       => (Done /\ NonZeroStatus)
  /\ backend # <<>> => (Done /\ exit = Exited(backend[Len(backend)].status))
  /\ HelpDisplayed => (Done /\ exit = Exited(0))

\* The backend returned a non-zero status and the process ended with it.
C8_Witness ==
  /\ backend # <<>>
  /\ backend[1].status = 1
  /\ exit = Exited(1)

(***************************************************************************)
(* C9                                                                      *)
(***************************************************************************)
\* The calls of main in the order of the dispatch.
DispatchOrder ==
  <<"parseToolName", "factoryFunc", "addToolOptions", "parseOptions",
    "getRuntimeConfig", "setRuntimeConfig", "init", "run">>

\* C9: the calls made so far are an initial part of the dispatch order, a
\* call made only when every earlier call returned normally; the tool is
\* created at most once, exactly once when name resolution succeeded; the
\* backend is run at most once, with a tool that holds both its
\* RuntimeConfig and its parsed options.
C9_DispatchOrder ==
  /\ Len(steps) <= Len(DispatchOrder)
  /\ steps = SubSeq(DispatchOrder, 1, Len(steps))
  /\ thrown # <<>> => pc = "exited"
  /\ (Len(steps) >= 1 /\ pc # "exited") => (thrown = <<>> /\ exit = Running)
  /\ Len(tools) <= 1
  /\ Len(tools) = 1 <=> Len(steps) >= 2
  /\ (Len(steps) >= 1 /\ ~ThrownIs("po::error", "parseToolName")
        /\ ~UsageError /\ ~UnknownToolError)
       => (toolName \in DOMAIN globalTools /\ (pc = "factoryFunc" \/ Len(tools) = 1))
  /\ Len(backend) <= 1
  /\ \A i \in 1..Len(backend) :
       /\ backend[i].tool.runtimeConfig = cfg
       /\ cfg # <<>>
       /\ backend[i].tool.initOpts = allOpts
       /\ allOpts # <<>>
       /\ backend[i].tool.name = toolName

\* The whole dispatch was gone through once.
C9_Witness ==
  /\ steps = DispatchOrder
  /\ Len(backend) = 1
  /\ Len(tools) = 1

(***************************************************************************)
(* C10                                                                     *)
(***************************************************************************)
\* The tool name given with the tool-name option, followed by distinct
\* well-formed options of the merged schema, help and the pair save-exe,
\* load-exe apart.
ToolNameByFlag ==
  /\ Len(argv) >= 1
  /\ argv[1] = LongEq("tool-name", "fft")
  /\ NoRepeats(argv)
  /\ \A i \in 2..Len(argv) :
       /\ WellFormedFor(argv[i], AllOptions(globalTools["fft"]))
       /\ argv[i].name \notin {"help", "load-exe"}

\* C10: a registered tool named with the tool-name option is resolved as
\* when named by the first word, and the dispatch then succeeds as for that
\* form when every other option is declared by the merged schema.
C10_ToolNameFlag ==
  ToolNameByFlag
    => (/\ Len(steps) = 1 => (toolName = "fft" /\ factoryFunc = <<"fft">> /\ ~Done)
        /\ StrictParseDone => (~InvalidOptionError /\ Stored))

====
